---- MODULE Spec2Model ----
(***************************************************************************)
(* A model of src/index.ts, the crawler that rebuilds the `az` command     *)
(* tree from the documentation site.                                       *)
(*                                                                         *)
(* Two families of specifications share the module:                        *)
(*   PureSpec          the pure helpers (removeTrailingDot, getOption's    *)
(*                     alias handling, the keyed-map de-duplication of     *)
(*                     genBaseSubcommands), applied to bounded inputs;     *)
(*   Spec / LiveSpec   one run of main(): every action is one event-loop   *)
(*                     turn, i.e. the completion of one awaited I/O        *)
(*                     operation together with all the synchronous code    *)
(*                     and promise continuations that run before the next  *)
(*                     suspension point.                                   *)
(* Strings the helpers inspect character by character are sequences of     *)
(* one-character strings.                                                  *)
(***************************************************************************)
EXTENDS Integers, Sequences, FiniteSets, TLC

VARIABLES
  \* ---- the pure helpers' harness
  pkind,       \* which helper the input is for: "none", "str", "name", "rows"
  pin,         \* the input
  pout,        \* the helper's result (<<>> until applied)
  pdone,       \* whether the helper has been applied
  \* ---- one run of main()
  proc,        \* the process: "running", "exit0", "exit1", "crashed"
  pc,          \* where main() is suspended
  dirs,        \* the directories that exist, among "src", "az", "ver"
  files,       \* the artifact files that exist: "root" (src/az/<version>.ts)
               \* and one per base-command name (src/az/<version>/<name>.ts)
  files0,      \* the artifact files that existed before the run
  baseCommands,\* the result of genBaseSubcommands (<<>> before)
  ls,          \* per base command, where its loadSubcommand stands
  subQueue,    \* subcommandLimit's queue (base-command indices)
  reqQueue,    \* requestLimit's queue (<<base command, group url>>)
  reqActive,   \* requestLimit's running tasks: fetches in flight
  fetched,     \* per base command, the group urls fetched, parsed and merged
  tree,        \* per base command, the `subcommand` object being filled
  writing,     \* the writeSubcommand calls in flight (base-command indices)
  nFetch,      \* the number of axios.get calls issued so far
  fetchFailed, \* whether some fetch has failed
  startOrder,  \* the order in which loadSubcommand calls started
  fetchOrder   \* per base command, the order its group fetches were issued in

pureVars == <<pkind, pin, pout, pdone>>
runVars == <<proc, pc, dirs, files, files0, baseCommands, ls, subQueue, reqQueue,
             reqActive, fetched, tree, writing, nFetch, fetchFailed, startOrder,
             fetchOrder>>

(***************************************************************************)
(* Bounds of the pure helpers' inputs.                                     *)
(***************************************************************************)
MaxStrLen == 4
MaxNameLen == 5
MaxRows == 3

StrChars == {".", "a"}
NameChars == {"-", "g", " "}
RowNames == {"ml", "vm"}
RowDescriptions == {1, 2}
\* 0 stands for "no link" (null)
RowLinks == {0, 1}

SeqsUpTo(S, n) == UNION {[1..k -> S] : k \in 0..n}

(***************************************************************************)
(* General utility functions.                                              *)
(***************************************************************************)
\* The bug a mutant stands for: strip every trailing dot.
RECURSIVE removeAllTrailingDots(_)
removeAllTrailingDots(content) ==
  IF Len(content) > 0 /\ content[Len(content)] = "."
    THEN removeAllTrailingDots(SubSeq(content, 1, Len(content) - 1))
    ELSE content

removeTrailingDot(content) ==
  IF Len(content) > 0 /\ content[Len(content)] = "."
    THEN SubSeq(content, 1, Len(content) - 1)
    ELSE content

\* figifyList: a one-element list collapses to its element.
figifyList(list) ==
  IF Len(list) = 1
    THEN [kind |-> "one", one |-> list[1], many |-> <<>>]
    ELSE [kind |-> "list", one |-> <<>>, many |-> list]

(***************************************************************************)
(* getOption: the alias handling (split, in-place sort, argument name).    *)
(***************************************************************************)
\* name.split(" "): every single space separates, so adjacent, leading and
\* trailing spaces give empty aliases.
RECURSIVE SplitFrom(_, _, _)
SplitFrom(s, done, cur) ==
  IF s = <<>> THEN Append(done, cur)
  ELSE IF Head(s) = " " THEN SplitFrom(Tail(s), Append(done, cur), <<>>)
  ELSE SplitFrom(Tail(s), done, Append(cur, Head(s)))

Split(s) == SplitFrom(s, <<>>, <<>>)

\* Array.prototype.sort with (a, b) => b.length - a.length: stable, by
\* descending length.
InsertByLength(sorted, x) ==
  LET before == {i \in 1..Len(sorted) : Len(sorted[i]) >= Len(x)}
      k == IF before = {} THEN 0
           ELSE CHOOSE i \in before : \A j \in before : j <= i
  IN SubSeq(sorted, 1, k) \o <<x>> \o SubSeq(sorted, k + 1, Len(sorted))

RECURSIVE SortFrom(_, _)
SortFrom(rest, sorted) ==
  IF rest = <<>> THEN sorted
  ELSE SortFrom(Tail(rest), InsertByLength(sorted, Head(rest)))

SortByLengthDesc(names) == SortFrom(names, <<>>)

\* replace(/^-+/, "")
RECURSIVE StripLeadingDashes(_)
StripLeadingDashes(s) ==
  IF s # <<>> /\ Head(s) = "-" THEN StripLeadingDashes(Tail(s)) ELSE s

NoArgGlobalFlags ==
  { <<"-", "-", "d", "e", "b", "u", "g">>,
    <<"-", "-", "v", "e", "r", "b", "o", "s", "e">>,
    <<"-", "-", "h", "e", "l", "p">>,
    <<"-", "-", "o", "n", "l", "y", "-", "s", "h", "o", "w", "-", "e", "r", "r", "o", "r", "s">> }
YesFlag == <<"-", "-", "y", "e", "s">>

Includes(list, x) == \E i \in 1..Len(list) : list[i] = x

\* `names` is sorted in place at line 51, so every later use of `names`
\* (has_no_arg, the returned Option) sees the sorted array.  The description
\* enters only through "does it contain `default value: false`".
getOption(name, descHasDefaultFalse, isPersistent, isRequired) ==
  LET names == SortByLengthDesc(Split(name))
      argName == StripLeadingDashes(names[1])
      has_no_arg ==
        \/ descHasDefaultFalse
        \/ /\ isPersistent
           /\ \E f \in NoArgGlobalFlags : Includes(names, f)
        \/ Includes(names, YesFlag)
  IN [name |-> figifyList(names),
      hasArgs |-> ~has_no_arg,
      argName |-> IF has_no_arg THEN <<>> ELSE argName,
      isPersistent |-> isPersistent,
      isRequired |-> isRequired]

(***************************************************************************)
(* genBaseSubcommands: the keyed map over the listing rows.                *)
(***************************************************************************)
\* The bug a mutant stands for: keep the first row of a name.
MapSetKeepFirst(m, row) ==
  IF \E i \in 1..Len(m) : m[i].name = row.name THEN m ELSE Append(m, row)

\* Map.prototype.set: a new key is appended in insertion order, an existing
\* key keeps its place and takes the new value.
MapSet(m, row) ==
  IF \E i \in 1..Len(m) : m[i].name = row.name
    THEN [i \in 1..Len(m) |-> IF m[i].name = row.name THEN row ELSE m[i]]
    ELSE Append(m, row)

RECURSIVE MapFrom(_, _)
MapFrom(rows, m) ==
  IF rows = <<>> THEN m ELSE MapFrom(Tail(rows), MapSet(m, Head(rows)))

\* [...new Map(baseCommands.map((b) => [b.name, b])).values()]
DedupByName(rows) == MapFrom(rows, <<>>)

(***************************************************************************)
(* The harness of the pure helpers.                                        *)
(***************************************************************************)
RowRecords == [name : RowNames, description : RowDescriptions, link : RowLinks]

RunIdle ==
  /\ proc = "exit0" /\ pc = "none" /\ dirs = {} /\ files = {} /\ files0 = {}
  /\ baseCommands = <<>> /\ ls = <<>> /\ subQueue = <<>> /\ reqQueue = <<>>
  /\ reqActive = {} /\ fetched = <<>> /\ tree = <<>> /\ writing = {}
  /\ nFetch = 0 /\ fetchFailed = FALSE /\ startOrder = <<>> /\ fetchOrder = <<>>

PureInit ==
  /\ RunIdle
  /\ pdone = FALSE
  /\ pout = <<>>
  /\ \/ /\ pkind = "str"
        /\ pin \in SeqsUpTo(StrChars, MaxStrLen)
     \/ /\ pkind = "name"
        /\ pin \in [name : SeqsUpTo(NameChars, MaxNameLen),
                    descHasDefaultFalse : BOOLEAN,
                    isPersistent : BOOLEAN]
     \/ /\ pkind = "rows"
        /\ pin \in SeqsUpTo(RowRecords, MaxRows)

ApplyRemoveTrailingDot ==
  /\ pkind = "str" /\ ~pdone
  /\ pout' = [once |-> removeTrailingDot(pin),
              twice |-> removeTrailingDot(removeTrailingDot(pin))]
  /\ pdone' = TRUE
  /\ UNCHANGED <<pkind, pin>>
  /\ UNCHANGED runVars

ApplyGetOption ==
  /\ pkind = "name" /\ ~pdone
  /\ pout' = getOption(pin.name, pin.descHasDefaultFalse, pin.isPersistent, FALSE)
  /\ pdone' = TRUE
  /\ UNCHANGED <<pkind, pin>>
  /\ UNCHANGED runVars

ApplyDedupByName ==
  /\ pkind = "rows" /\ ~pdone
  /\ pout' = DedupByName(pin)
  /\ pdone' = TRUE
  /\ UNCHANGED <<pkind, pin>>
  /\ UNCHANGED runVars

PureNext == ApplyRemoveTrailingDot \/ ApplyGetOption \/ ApplyDedupByName


(***************************************************************************)
(* The documentation site the run crawls.  The listing page has a row      *)
(* whose link is the listing page itself (an inline command) and two rows  *)
(* named `ml`; every landing page lists NumGroups group pages, one of them *)
(* twice and one row without a link; group page u carries the heading      *)
(* `az <base> s1 .. s(u-1)`.  The first group page (the landing page's own *)
(* group) documents `create` twice: once in core, once in an extension.    *)
(* Descriptions and summaries are opaque numbers (0: undefined); links and *)
(* urls are numbers too (0: null).                                         *)
(***************************************************************************)
NumGroups == 3

ListingRows ==
  << [name |-> "webapp",  description |-> 1, link |-> 1],
     [name |-> "version", description |-> 2, link |-> 0],
     [name |-> "ml",      description |-> 3, link |-> 2],
     [name |-> "ml",      description |-> 4, link |-> 3] >>

\* The hrefs of a landing page's table rows, 0 for a row without an anchor.
LandingRows(link) ==
  <<1, 0>> \o [i \in 1..(NumGroups - 1) |-> i + 1] \o <<1>>

Segments == <<"auth", "apple", "key", "slot", "cert", "rule">>

GroupPage(u) ==
  [sections |-> SubSeq(Segments, 1, u - 1),
   summary  |-> 10 + u,
   commands |-> IF u = 1 THEN <<"create", "create">> ELSE <<"show">>]

(***************************************************************************)
(* loadSubcommandGroupUrls: the non-null hrefs, de-duplicated by a Set     *)
(* (first-seen order).                                                     *)
(***************************************************************************)
RECURSIVE SetFrom(_, _)
SetFrom(pages, seen) ==
  IF pages = <<>> THEN seen
  ELSE SetFrom(Tail(pages),
               IF Includes(seen, Head(pages)) THEN seen
               ELSE Append(seen, Head(pages)))

loadSubcommandGroupUrls(link) ==
  SetFrom(SelectSeq(LandingRows(link), LAMBDA h : h # 0), <<>>)

(***************************************************************************)
(* The `subcommand` object of loadSubcommand: a heap of nodes, node 1 the  *)
(* root; `subcommands` holds the children's indices and `hasSubcommands`   *)
(* tells an array from undefined.                                          *)
(***************************************************************************)
NewNode(name, description, hasSubcommands) ==
  [name |-> name, description |-> description, subcommands |-> <<>>,
   hasSubcommands |-> hasSubcommands]

\* currentSubcommand.subcommands?.find((s) => s.name === section); 0: none
FindChild(t, cur, section) ==
  LET subs == t[cur].subcommands
      hits == {i \in 1..Len(subs) : t[subs[i]].name = section}
  IN IF t[cur].hasSubcommands /\ hits # {}
       THEN subs[CHOOSE i \in hits : \A j \in hits : i <= j]
       ELSE 0

\* lines 328-340: the walk over subcommandGroupNameSections.  A new node is
\* { name: section }, without a subcommands array, and
\* `currentSubcommand.subcommands?.push` does nothing on such a node.
RECURSIVE WalkSections(_, _, _)
WalkSections(t, cur, sections) ==
  IF sections = <<>> THEN [t |-> t, cur |-> cur]
  ELSE LET existing == FindChild(t, cur, Head(sections))
           n == Len(t) + 1
           t1 == Append(t, NewNode(Head(sections), 0, FALSE))
           t2 == IF t[cur].hasSubcommands
                   THEN [t1 EXCEPT ![cur].subcommands = Append(@, n)]
                   ELSE t1
       IN IF existing # 0
            THEN WalkSections(t, existing, Tail(sections))
            ELSE WalkSections(t2, n, Tail(sections))

\* lines 346-351: each parsed command is appended when the node has a
\* subcommands array, and the array stays undefined otherwise.
RECURSIVE AppendCommands(_, _, _)
AppendCommands(t, cur, commands) ==
  IF commands = <<>> THEN t
  ELSE IF t[cur].hasSubcommands
    THEN AppendCommands(
           [Append(t, NewNode(Head(commands), 0, FALSE))
              EXCEPT ![cur].subcommands = Append(@, Len(t) + 1)],
           cur, Tail(commands))
    ELSE AppendCommands(t, cur, Tail(commands))

\* lines 319-351: what a group task does to the tree once its page is in.
MergeGroupPage(t, page) ==
  LET w == WalkSections(t, 1, page.sections)
      t1 == [w.t EXCEPT ![w.cur].description = page.summary]
  IN AppendCommands(t1, w.cur, page.commands)

(***************************************************************************)
(* p-limit: a FIFO queue and a count of running tasks.                     *)
(***************************************************************************)
requestLimitConcurrency == 2
subcommandLimitConcurrency == 1

\* The bug a mutant stands for: a limiter that starts the newest task.
QueueNewest(q) == Len(q)

\* queue.dequeue(): the index of the task a limiter starts next.
QueueNext(q) == 1

Remove(q, i) == SubSeq(q, 1, i - 1) \o SubSeq(q, i + 1, Len(q))

Range(q) == {q[i] : i \in 1..Len(q)}

(***************************************************************************)
(* The continuations of one event-loop turn, as functions of the part of   *)
(* the state they change.                                                  *)
(***************************************************************************)
K == [pc |-> pc, ls |-> ls, subQueue |-> subQueue, reqQueue |-> reqQueue,
      reqActive |-> reqActive, fetched |-> fetched, tree |-> tree,
      writing |-> writing, nFetch |-> nFetch, startOrder |-> startOrder,
      fetchOrder |-> fetchOrder]

Commit(k) ==
  /\ pc' = k.pc /\ ls' = k.ls /\ subQueue' = k.subQueue
  /\ reqQueue' = k.reqQueue /\ reqActive' = k.reqActive
  /\ fetched' = k.fetched /\ tree' = k.tree /\ writing' = k.writing
  /\ nFetch' = k.nFetch /\ startOrder' = k.startOrder
  /\ fetchOrder' = k.fetchOrder

Running(k) == {c \in 1..Len(k.ls) : k.ls[c] \in {"inline", "urls", "groups"}}

\* lines 295-307: loadSubcommand up to its first await, a fetch either way.
StartLoadSubcommand(k, c) ==
  [k EXCEPT !.ls[c] = IF baseCommands[c].link = 0 THEN "inline" ELSE "urls",
            !.nFetch = @ + 1,
            !.startOrder = Append(@, c)]

\* subcommandLimit starts queued tasks while a slot is free.
RECURSIVE SubcommandLimitNext(_)
SubcommandLimitNext(k) ==
  IF k.subQueue # <<>> /\ Cardinality(Running(k)) < subcommandLimitConcurrency
    THEN LET i == QueueNext(k.subQueue)
         IN SubcommandLimitNext(
              StartLoadSubcommand([k EXCEPT !.subQueue = Remove(@, i)],
                                  k.subQueue[i]))
    ELSE k

\* lines 402-407, reached when the Promise.all of line 397 resolves.
AfterCrawl(k) ==
  IF "ver" \in dirs
    THEN IF k.ls = <<>>
           THEN [k EXCEPT !.pc = "done"]
           ELSE [k EXCEPT !.pc = "writeSubs", !.writing = 1..Len(k.ls)]
    ELSE [k EXCEPT !.pc = "mkdirVer"]

\* loadSubcommand(c) settles: the Promise.all of line 397 rejects on the
\* first rejection and resolves when every call has resolved, and
\* subcommandLimit's slot is free again.
SettleLoadSubcommand(k, c, ok) ==
  LET k1 == [k EXCEPT !.ls[c] = IF ok THEN "resolved" ELSE "rejected"]
      k2 == IF k1.pc # "crawl" THEN k1
            ELSE IF ~ok THEN [k1 EXCEPT !.pc = "rejected"]
            ELSE IF \A d \in 1..Len(k1.ls) : k1.ls[d] = "resolved"
              THEN AfterCrawl(k1)
            ELSE k1
  IN SubcommandLimitNext(k2)

\* requestLimit starts the task at index i: line 316, the fetch.
StartRequest(k, i) ==
  LET t == k.reqQueue[i]
  IN [k EXCEPT !.reqQueue = Remove(@, i),
               !.reqActive = @ \cup {t},
               !.nFetch = @ + 1,
               !.fetchOrder[t[1]] = Append(@, t[2])]

RECURSIVE RequestLimitNext(_)
RequestLimitNext(k) ==
  IF k.reqQueue # <<>> /\ Cardinality(k.reqActive) < requestLimitConcurrency
    THEN RequestLimitNext(StartRequest(k, QueueNext(k.reqQueue)))
    ELSE k

(***************************************************************************)
(* main()                                                                  *)
(***************************************************************************)
\* The bug a mutant stands for: the up-to-date check is lost.
neverUpToDate(fs) == FALSE

\* fs.existsSync(path.join("src", "az", `${version}.ts`))
existsVersionFile(fs) == "root" \in fs

RunInit ==
  /\ pkind = "none" /\ pin = <<>> /\ pout = <<>> /\ pdone = FALSE
  /\ proc = "running" /\ pc = "start"
  /\ dirs \in {{}, {"src"}, {"src", "az"}, {"src", "az", "ver"}}
  /\ files0 \in IF "az" \in dirs THEN {{}, {"root"}} ELSE {{}}
  /\ files = files0
  /\ baseCommands = <<>> /\ ls = <<>> /\ subQueue = <<>> /\ reqQueue = <<>>
  /\ reqActive = {} /\ fetched = <<>> /\ tree = <<>> /\ writing = {}
  /\ nFetch = 0 /\ fetchFailed = FALSE /\ startOrder = <<>> /\ fetchOrder = <<>>

crawlVars == <<ls, subQueue, reqQueue, reqActive, fetched, tree, writing,
               startOrder, fetchOrder>>

\* lines 370-374: the precondition, then genCurrentVersion's fetch.
MainStart ==
  /\ proc = "running" /\ pc = "start"
  /\ IF "src" \in dirs
       THEN proc' = proc /\ pc' = "version" /\ nFetch' = nFetch + 1
       ELSE proc' = "exit1" /\ pc' = "none" /\ nFetch' = nFetch
  /\ UNCHANGED <<dirs, files, files0, baseCommands, fetchFailed>>
  /\ UNCHANGED crawlVars
  /\ UNCHANGED pureVars

\* lines 155-165, 375-379: the release page arrives (or the fetch fails);
\* its title may hold no version.
VersionResp ==
  /\ proc = "running" /\ pc = "version"
  /\ \E ok \in BOOLEAN, hasVersion \in BOOLEAN :
       /\ fetchFailed' = (fetchFailed \/ ~ok)
       /\ IF ~ok \/ ~hasVersion
            THEN proc' = proc /\ pc' = "rejected" /\ nFetch' = nFetch
          ELSE IF existsVersionFile(files)
            THEN proc' = "exit0" /\ pc' = "upToDate" /\ nFetch' = nFetch
          ELSE proc' = proc /\ pc' = "listing" /\ nFetch' = nFetch + 1
  /\ UNCHANGED <<dirs, files, files0, baseCommands>>
  /\ UNCHANGED crawlVars
  /\ UNCHANGED pureVars

\* lines 86-113, 380: the listing page arrives; genGlobalOptions fetches it
\* again.
ListingResp ==
  /\ proc = "running" /\ pc = "listing"
  /\ \E ok \in BOOLEAN :
       /\ fetchFailed' = (fetchFailed \/ ~ok)
       /\ IF ok
            THEN /\ baseCommands' = DedupByName(ListingRows)
                 /\ pc' = "globals" /\ nFetch' = nFetch + 1
            ELSE /\ baseCommands' = baseCommands
                 /\ pc' = "rejected" /\ nFetch' = nFetch
  /\ UNCHANGED <<proc, dirs, files, files0>>
  /\ UNCHANGED crawlVars
  /\ UNCHANGED pureVars

\* lines 117-135, 381-394, 146-148: the global options arrive;
\* writeBaseCommands creates src/az when it is missing.
GlobalsResp ==
  /\ proc = "running" /\ pc = "globals"
  /\ \E ok \in BOOLEAN :
       /\ fetchFailed' = (fetchFailed \/ ~ok)
       /\ pc' = IF ~ok THEN "rejected"
                ELSE IF "az" \in dirs THEN "writeRoot" ELSE "mkdirAz"
  /\ UNCHANGED <<proc, dirs, files, files0, baseCommands, nFetch>>
  /\ UNCHANGED crawlVars
  /\ UNCHANGED pureVars

\* line 147
MkdirAzDone ==
  /\ proc = "running" /\ pc = "mkdirAz"
  /\ dirs' = dirs \cup {"az"}
  /\ pc' = "writeRoot"
  /\ UNCHANGED <<proc, files, files0, baseCommands, nFetch, fetchFailed>>
  /\ UNCHANGED crawlVars
  /\ UNCHANGED pureVars

\* lines 149, 396-401: the root artifact is written; every base command is
\* queued on subcommandLimit, which starts the first.
WriteRootDone ==
  /\ proc = "running" /\ pc = "writeRoot"
  /\ files' = files \cup {"root"}
  /\ LET n == Len(baseCommands)
         k0 == [K EXCEPT !.pc = "crawl",
                         !.ls = [c \in 1..n |-> "queued"],
                         !.subQueue = [c \in 1..n |-> c],
                         !.fetched = [c \in 1..n |-> {}],
                         !.tree = [c \in 1..n |-> <<>>],
                         !.fetchOrder = [c \in 1..n |-> <<>>]]
     IN Commit(IF n = 0 THEN AfterCrawl(k0) ELSE SubcommandLimitNext(k0))
  /\ UNCHANGED <<proc, dirs, files0, baseCommands, fetchFailed>>
  /\ UNCHANGED pureVars

\* lines 296-302: the listing page arrives for an inline base command.
InlineResp ==
  /\ proc = "running"
  /\ \E c \in 1..Len(ls), ok \in BOOLEAN :
       /\ ls[c] = "inline"
       /\ fetchFailed' = (fetchFailed \/ ~ok)
       /\ LET parsed == << NewNode(baseCommands[c].name,
                                   baseCommands[c].description, FALSE) >>
              k1 == IF ok THEN [K EXCEPT !.tree[c] = parsed] ELSE K
          IN Commit(SettleLoadSubcommand(k1, c, ok))
  /\ UNCHANGED <<proc, dirs, files, files0, baseCommands>>
  /\ UNCHANGED pureVars

\* lines 170-190, 308-315: the landing page arrives; one task per group url
\* goes to requestLimit.
LandingResp ==
  /\ proc = "running"
  /\ \E c \in 1..Len(ls), ok \in BOOLEAN :
       /\ ls[c] = "urls"
       /\ fetchFailed' = (fetchFailed \/ ~ok)
       /\ LET groupUrls == loadSubcommandGroupUrls(baseCommands[c].link)
              root == NewNode(baseCommands[c].name,
                              baseCommands[c].description, TRUE)
              k1 == [K EXCEPT
                       !.ls[c] = "groups",
                       !.tree[c] = <<root>>,
                       !.reqQueue = @ \o [i \in 1..Len(groupUrls) |->
                                            <<c, groupUrls[i]>>]]
              k2 == RequestLimitNext(k1)
          IN Commit(IF ~ok THEN SettleLoadSubcommand(K, c, FALSE)
                    ELSE IF groupUrls = <<>>
                      THEN SettleLoadSubcommand(k2, c, TRUE)
                    ELSE k2)
  /\ UNCHANGED <<proc, dirs, files, files0, baseCommands>>
  /\ UNCHANGED pureVars

\* lines 316-352: a group page arrives and is merged into its base
\* command's tree (or the fetch fails); the Promise.all of line 313 rejects
\* on the first failure and resolves with the last page; requestLimit starts
\* its next task.
GroupResp ==
  /\ proc = "running"
  /\ \E t \in reqActive, ok \in BOOLEAN :
       /\ fetchFailed' = (fetchFailed \/ ~ok)
       /\ LET c == t[1]
              u == t[2]
              k1 == [K EXCEPT !.reqActive = @ \ {t}]
              k2 == IF ok
                      THEN [k1 EXCEPT
                              !.tree[c] = MergeGroupPage(@, GroupPage(u)),
                              !.fetched[c] = @ \cup {u}]
                      ELSE k1
              all == Range(loadSubcommandGroupUrls(baseCommands[c].link))
              k3 == IF k2.ls[c] # "groups" THEN k2
                    ELSE IF ~ok THEN SettleLoadSubcommand(k2, c, FALSE)
                    ELSE IF k2.fetched[c] = all
                      THEN SettleLoadSubcommand(k2, c, TRUE)
                    ELSE k2
          IN Commit(RequestLimitNext(k3))
  /\ UNCHANGED <<proc, dirs, files, files0, baseCommands>>
  /\ UNCHANGED pureVars

\* lines 403, 405-407
MkdirVerDone ==
  /\ proc = "running" /\ pc = "mkdirVer"
  /\ dirs' = dirs \cup {"ver"}
  /\ pc' = "writeSubs"
  /\ writing' = 1..Len(ls)
  /\ UNCHANGED <<proc, files, files0, baseCommands, nFetch, fetchFailed, ls,
                 subQueue, reqQueue, reqActive, fetched, tree, startOrder,
                 fetchOrder>>
  /\ UNCHANGED pureVars

\* lines 363-366, 408-416: one writeSubcommand completes; with the last,
\* main returns and the process ends.
WriteSubDone ==
  /\ proc = "running" /\ pc = "writeSubs"
  /\ \E c \in writing :
       /\ files' = files \cup {tree[c][1].name}
       /\ writing' = writing \ {c}
       /\ pc' = IF writing' = {} THEN "done" ELSE pc
       /\ proc' = IF writing' = {} THEN "exit0" ELSE proc
  /\ UNCHANGED <<dirs, files0, baseCommands, nFetch, fetchFailed, ls,
                 subQueue, reqQueue, reqActive, fetched, tree, startOrder,
                 fetchOrder>>
  /\ UNCHANGED pureVars

\* line 418: main()'s promise has no rejection handler.  What the runtime
\* does with the unhandled rejection is its configuration: it ends the
\* process once the turn is over, or it only warns and I/O already issued
\* keeps completing.
UnhandledRejection ==
  /\ proc = "running" /\ pc = "rejected"
  /\ proc' = "crashed"
  /\ UNCHANGED <<pc, dirs, files, files0, baseCommands, nFetch, fetchFailed>>
  /\ UNCHANGED crawlVars
  /\ UNCHANGED pureVars

Next ==
  \/ MainStart \/ VersionResp \/ ListingResp \/ GlobalsResp \/ MkdirAzDone
  \/ WriteRootDone \/ InlineResp \/ LandingResp \/ GroupResp \/ MkdirVerDone
  \/ WriteSubDone \/ UnhandledRejection

vars == <<pureVars, runVars>>

PureSpec == PureInit /\ [][PureNext]_vars

Spec == RunInit /\ [][Next]_vars

\* Every awaited I/O operation completes and the event loop runs its
\* continuation.
LiveSpec == Spec /\ WF_vars(Next)
(***************************************************************************)
(* Notions the properties use.                                             *)
(***************************************************************************)
Bases == 1..Len(ls)

TasksOf(c) == {t \in reqActive \cup Range(reqQueue) : t[1] = c}

\* A base command's build is in progress: its loadSubcommand has started
\* and has not settled, or a task of it can still fetch or touch its tree.
InProgress(c) == ls[c] \in {"inline", "urls", "groups"} \/ TasksOf(c) # {}

\* The page fetches issued and not yet completed.
Outstanding ==
  (IF pc \in {"version", "listing", "globals"} THEN 1 ELSE 0)
  + Cardinality({c \in Bases : ls[c] \in {"inline", "urls"}})
  + Cardinality(reqActive)

RunEnded == proc # "running" \/ (pc = "rejected" /\ Outstanding = 0)

RECURSIVE HasChain(_, _, _)
HasChain(t, node, names) ==
  \/ names = <<>>
  \/ \E i \in 1..Len(t[node].subcommands) :
       /\ t[t[node].subcommands[i]].name = Head(names)
       /\ HasChain(t, t[node].subcommands[i], Tail(names))

EndsWithDot(s) == Len(s) >= 1 /\ s[Len(s)] = "."
EndsWithTwoDots(s) == Len(s) >= 2 /\ s[Len(s)] = "." /\ s[Len(s) - 1] = "."

\* The aliases an Option shows to its consumers.
ExposedNames(o) == IF o.name.kind = "one" THEN <<o.name.one>> ELSE o.name.many

\* A clean alias string: aliases separated by single spaces, none empty.
CleanAliases(s) == \A i \in 1..Len(Split(s)) : Split(s)[i] # <<>>

(***************************************************************************)
(* C1.  If any page fetch fails, the run ends having written no output     *)
(* artifact: no artifact file exists that did not exist before the run.    *)
(* (The statement as claimed; the code writes the root artifact before the *)
(* crawl, so a later failure leaves it behind.)                            *)
(***************************************************************************)
C1_NoArtifactAfterFailedFetch ==
  (fetchFailed /\ RunEnded) => files = files0

(***************************************************************************)
(* C2, as claimed.  A run that finds the artifact of the resolved version  *)
(* performs no network fetch at all, writes no file and exits with         *)
(* success.                                                                *)
(***************************************************************************)
C2_UpToDateNoFetchAtAll ==
  pc = "upToDate" => (nFetch = 0 /\ files = files0 /\ proc = "exit0")

(***************************************************************************)
(* C2, amended.  When the artifact of the resolved version exists before   *)
(* the run, then once the version is resolved the run has exited with      *)
(* success, having issued exactly one fetch (the release page that gives   *)
(* the version) and having written or changed no file.                     *)
(***************************************************************************)
C2_UpToDateOnlyVersionFetch ==
  ("root" \in files0 /\ pc \notin {"start", "version", "rejected"})
    => (pc = "upToDate" /\ proc = "exit0" /\ nFetch = 1 /\ files = files0)

\* C2's case: the run ended as already up to date.
C2_Witness == pc = "upToDate" /\ proc = "exit0" /\ "root" \in files0

(***************************************************************************)
(* C3.  Once a base command's crawl has completed, every leaf command L of *)
(* every group page with path p1..pn is reached by the chain               *)
(* root -> p1 -> .. -> pn -> L.  (The statement as claimed; a node created *)
(* by the walk has no subcommands array, so nothing is ever attached       *)
(* below the root's children.)                                             *)
(***************************************************************************)
C3_LeafChainAfterCrawl ==
  \A c \in Bases :
    (ls[c] = "resolved" /\ baseCommands[c].link # 0) =>
      \A u \in Range(loadSubcommandGroupUrls(baseCommands[c].link)) :
        \A i \in 1..Len(GroupPage(u).commands) :
          HasChain(tree[c], 1,
                   Append(GroupPage(u).sections, GroupPage(u).commands[i]))

(***************************************************************************)
(* C4.  At most one base command has its subtree build in progress.  (The  *)
(* statement as claimed; a failed group fetch frees subcommandLimit's slot *)
(* while the other group tasks of the same base command are still queued   *)
(* or in flight in requestLimit.)                                          *)
(***************************************************************************)
C4_OneBuildAtATime ==
  proc = "running" => Cardinality({c \in Bases : InProgress(c)}) <= 1

(***************************************************************************)
(* C5.  While group pages are being fetched, at most 2 page fetches are    *)
(* outstanding.  (The statement as claimed; after the failure of C4 the    *)
(* next base command's landing fetch is issued beside two group fetches.)  *)
(***************************************************************************)
C5_AtMostTwoOutstanding ==
  (proc = "running" /\ reqActive # {}) => Outstanding <= 2

(***************************************************************************)
(* C6.  Both pools are FIFO and drop nothing: loadSubcommand calls start   *)
(* in listing order and a base command's group fetches are issued in the   *)
(* order of its de-duplicated url list; and unless the run is cut short    *)
(* (a failed fetch, a title without a version, the precondition, an        *)
(* up-to-date exit), every base command's build starts and every group     *)
(* page of every base command is fetched.                                  *)
(***************************************************************************)
C6_Order ==
  /\ \A i \in 1..Len(startOrder) : startOrder[i] = i
  /\ \A c \in Bases :
       \A i \in 1..Len(fetchOrder[c]) :
         fetchOrder[c][i] = loadSubcommandGroupUrls(baseCommands[c].link)[i]

C6_CutShort == fetchFailed \/ pc \in {"rejected", "upToDate", "none"}

C6_AllStarted ==
  /\ pc \in {"mkdirVer", "writeSubs", "done"}
  /\ Len(startOrder) = Len(baseCommands)
  /\ \A c \in Bases :
       baseCommands[c].link # 0 =>
         fetched[c] = Range(loadSubcommandGroupUrls(baseCommands[c].link))

C6_FifoNoDrop == []C6_Order /\ <>(C6_CutShort \/ C6_AllStarted)

\* C6's case: both pools are full with tasks waiting behind them.
C6_Witness ==
  /\ ~fetchFailed
  /\ subQueue # <<>>
  /\ Cardinality(reqActive) = requestLimitConcurrency
  /\ reqQueue # <<>>

(***************************************************************************)
(* C7.  In every state of a base command's subtree the names of the        *)
(* children of any one node are pairwise distinct.  (The statement as      *)
(* claimed; parsed commands are appended without a look at their names.)   *)
(***************************************************************************)
C7_SiblingNamesDistinct ==
  \A c \in Bases :
    \A n \in 1..Len(tree[c]) :
      \A i, j \in 1..Len(tree[c][n].subcommands) :
        i # j =>
          tree[c][tree[c][n].subcommands[i]].name
            # tree[c][tree[c][n].subcommands[j]].name

C9_AliasOrderKept ==
  (pkind = "name" /\ pdone /\ CleanAliases(pin.name)) =>
    /\ ExposedNames(pout) # <<>>
    /\ ExposedNames(pout) = Split(pin.name)

(***************************************************************************)
(* C10, as claimed.  removeTrailingDot applied twice gives what one        *)
(* application gives.                                                      *)
(***************************************************************************)
C10_Idempotent ==
  (pkind = "str" /\ pdone) => pout.twice = pout.once

(***************************************************************************)
(* C10, amended.  One application returns s unchanged if s does not end    *)
(* in "." and otherwise removes exactly one trailing "."; applying it      *)
(* twice gives the same result as applying it once exactly when s does not *)
(* end in "..".                                                            *)
(***************************************************************************)
C10_OneDotIdempotentUnlessTwoDots ==
  (pkind = "str" /\ pdone) =>
    /\ ~EndsWithDot(pin) => pout.once = pin
    /\ EndsWithDot(pin) => pout.once \o <<".">> = pin
    /\ (pout.twice = pout.once) <=> ~EndsWithTwoDots(pin)

\* C10's case: a string with one trailing dot, the helper applied twice.
C10_Witness ==
  /\ pkind = "str" /\ pdone
  /\ EndsWithDot(pin) /\ ~EndsWithTwoDots(pin) /\ Len(pin) >= 2
  /\ pout.twice = pout.once
====
